---- MODULE Spec2Model ----
(***************************************************************************)
(* Campus Connect: the path planner (PathfindingTester.astarPath) and the  *)
(* graph repair pass (CompletePathFix.applyAllFixes) over the shared graph  *)
(* store campusNodes / campusGraph.                                        *)
(*                                                                         *)
(* JavaScript numbers are modelled by integers.  Math.sqrt is the integer  *)
(* square root; the floor-plan positions used by the initial states are    *)
(* chosen so that every distance between two loaded nodes is a whole       *)
(* number, hence exact.  Infinity, NaN and undefined are three reserved    *)
(* values outside the range of the weights and coordinates.                *)
(***************************************************************************)
EXTENDS Integers, Sequences, FiniteSets, TLC

VARIABLES
    campusNodes,   \* the node list: a sequence of node records
    campusGraph,   \* the adjacency map: id -> ordered list of [id, w]
    pc,            \* position of the current astarPath call
    start, end,    \* arguments of the current call
    openSet,       \* Set in insertion order
    closedSet,
    gScore, fScore, previous,
    iterations,    \* loop iterations run by the current call
    result,        \* value returned by the current call
    lastCall,      \* the previous completed call: arguments and result
    callsLeft,     \* calls the caller will still make
    phase,         \* position of applyAllFixes
    appliedFixes,  \* CompletePathFix.appliedFixes
    fixes,         \* CompletePathFix.fixes, one record per fix
    validationResults, \* CompletePathFix.validationResults
    report,        \* summary of the report returned by applyAllFixes
    debug,         \* Debug310To305: the fields room310 and room305
    lastRun,       \* the store as the previous run of applyAllFixes left it
    runsLeft       \* repair operations still to be invoked on the page

vars == <<campusNodes, campusGraph, pc, start, end, openSet, closedSet,
          gScore, fScore, previous, iterations, result, lastCall, callsLeft,
          phase, appliedFixes, fixes, validationResults, report,
          debug, lastRun, runsLeft>>

plannerVars == <<pc, start, end, openSet, closedSet, gScore, fScore,
                 previous, iterations, result, lastCall, callsLeft>>

toolVars == <<debug, lastRun, runsLeft>>

repairVars == <<phase, appliedFixes, fixes, validationResults, report, toolVars>>

storeVars == <<campusNodes, campusGraph>>

-----------------------------------------------------------------------------
(* Bounds of the model *)

\* extra weight of a "heavy" edge over the straight-line distance
Extra == 200
\* number of astarPath calls made in sequence on one graph
MaxCalls == 2
\* number of repair operations invoked in sequence on one graph
MaxRuns == 2

-----------------------------------------------------------------------------
(* JavaScript values *)

Infinity == 1000000
NaN == -1000000
Undefined == -2000000

IsNum(a) == a # NaN /\ a # Undefined

\* a + b
Plus(a, b) ==
    IF ~IsNum(a) \/ ~IsNum(b) THEN NaN
    ELSE IF a = Infinity \/ b = Infinity THEN Infinity
    ELSE a + b

\* a < b, false when either side is NaN or undefined
Lt(a, b) == IsNum(a) /\ IsNum(b) /\ a < b

\* a >= b, false when either side is NaN or undefined
Ge(a, b) == IsNum(a) /\ IsNum(b) /\ a >= b

\* !!w for a weight read from the adjacency map
Truthy(w) == w # Undefined /\ w # NaN /\ w # 0

RECURSIVE NewtonSqrt(_, _)
NewtonSqrt(n, x) ==
    LET y == (x + (n \div x)) \div 2
    IN  IF y >= x THEN x ELSE NewtonSqrt(n, y)

\* Math.sqrt on a non-negative integer (rounded down)
Sqrt(n) == IF n = 0 THEN 0 ELSE NewtonSqrt(n, n)

Null == "null"
NoId == "undefined"

\* F(v) with the argument evaluated before the call, as JavaScript does
CallByValue(F(_), v) == CHOOSE r \in {F(x) : x \in {v}} : TRUE

NullResult == [kind |-> "null", path |-> <<>>]
NoResult == [kind |-> "none", path |-> <<>>]
PathResult(p) == [kind |-> "path", path |-> p]

-----------------------------------------------------------------------------
(* Graph store *)

Node(id, x, y, type, label, searchable) ==
    [id |-> id, x |-> x, y |-> y, type |-> type, label |-> label,
     searchable |-> searchable]

NoNode == Node(NoId, Undefined, Undefined, "", "", FALSE)

\* campusNodes.find(n => n.id === nodeId)
FindNode(nodes, nodeId) ==
    IF \E i \in 1..Len(nodes) : nodes[i].id = nodeId
    THEN nodes[CHOOSE i \in 1..Len(nodes) :
                   /\ nodes[i].id = nodeId
                   /\ \A j \in 1..(i - 1) : nodes[j].id # nodeId]
    ELSE NoNode

NodeIds(nodes) == {nodes[i].id : i \in 1..Len(nodes)}

\* the node has numeric x and y
HasPosition(n) == IsNum(n.x) /\ IsNum(n.y)

\* graph[id] is an object (truthy)
HasKey(graph, id) == id \in DOMAIN graph

\* graph[id] || {}
Neighbors(graph, id) == IF HasKey(graph, id) THEN graph[id] ELSE <<>>

\* Object.keys(graph[id])
NeighborIds(graph, id) ==
    {Neighbors(graph, id)[i].id : i \in 1..Len(Neighbors(graph, id))}

\* graph[u][v]
Weight(graph, u, v) ==
    IF v \in NeighborIds(graph, u)
    THEN LET adj == Neighbors(graph, u)
         IN  adj[CHOOSE i \in 1..Len(adj) : adj[i].id = v].w
    ELSE Undefined

\* !graph[id] || Object.keys(graph[id]).length === 0
IsIsolated(graph, id) == Len(Neighbors(graph, id)) = 0

-----------------------------------------------------------------------------
(* Path planner: PathfindingTester.astarPath *)

\* every id the model uses: loaded nodes, the hubs the repair operations may
\* create and an id that no node list contains
AllIds == {"class_310", "class_305", "class_314", "invisible_1",
           "intersection_1", "stairway_1", "data_node_1", "main_hub_4",
           "hub_310_305", "nonexistent_node_1", "room_310", "room_305"}

IdSequence(nodes) == [i \in 1..Len(nodes) |-> nodes[i].id]

\* getNodeCoordinates(nodeId): node ? { x, y } : null
getNodeCoordinates(nodes, nodeId) ==
    LET node == FindNode(nodes, nodeId)
    IN  [found |-> node.id # NoId, x |-> node.x, y |-> node.y]

\* heuristicDistance(coord1, coord2)
heuristicDistance(coord1, coord2) ==
    IF ~IsNum(coord1.x) \/ ~IsNum(coord1.y) \/ ~IsNum(coord2.x) \/ ~IsNum(coord2.y)
    THEN NaN
    ELSE LET dx == coord2.x - coord1.x
             dy == coord2.y - coord1.y
         IN  Sqrt(dx * dx + dy * dy)

\* variant: only the node-list lookups are tested
RejectsNodesOnly(graph, nodes, s, e) ==
    \/ ~getNodeCoordinates(nodes, e).found
    \/ ~getNodeCoordinates(nodes, s).found

\* the early returns of astarPath
Rejects(graph, nodes, s, e) ==
    \/ ~getNodeCoordinates(nodes, e).found
    \/ ~getNodeCoordinates(nodes, s).found
    \/ ~HasKey(graph, s)
    \/ ~HasKey(graph, e)

\* variant: the closed set is shared by all calls and never cleared
InitialScoresSharedClosed(graph, nodes, s, e) ==
    [openSet   |-> <<s>>,
     closedSet |-> closedSet,
     gScore    |-> [n \in AllIds |->
                      IF n = s THEN 0
                      ELSE IF HasKey(graph, n) THEN Infinity ELSE Undefined],
     fScore    |-> [n \in AllIds |->
                      IF n = s
                      THEN heuristicDistance(getNodeCoordinates(nodes, s),
                                             getNodeCoordinates(nodes, e))
                      ELSE IF HasKey(graph, n) THEN Infinity ELSE Undefined],
     previous  |-> [n \in AllIds |-> IF HasKey(graph, n) THEN Null ELSE NoId]]

\* the per-call state after the initialisation of the scores
InitialScores(graph, nodes, s, e) ==
    [openSet   |-> <<s>>,
     closedSet |-> {},
     gScore    |-> [n \in AllIds |->
                      IF n = s THEN 0
                      ELSE IF HasKey(graph, n) THEN Infinity ELSE Undefined],
     fScore    |-> [n \in AllIds |->
                      IF n = s
                      THEN heuristicDistance(getNodeCoordinates(nodes, s),
                                             getNodeCoordinates(nodes, e))
                      ELSE IF HasKey(graph, n) THEN Infinity ELSE Undefined],
     previous  |-> [n \in AllIds |-> IF HasKey(graph, n) THEN Null ELSE NoId]]

RECURSIVE SelectFrom(_, _, _, _, _)
SelectFrom(open, f, i, current, minFScore) ==
    IF i > Len(open) THEN current
    ELSE IF Lt(f[open[i]], minFScore)
         THEN SelectFrom(open, f, i + 1, open[i], f[open[i]])
         ELSE SelectFrom(open, f, i + 1, current, minFScore)

\* variant: the oldest open node, whatever its fScore
SelectCurrentOldest(open, f) ==
    IF Len(open) > 0 /\ Lt(f[open[1]], Infinity) THEN open[1]
    ELSE SelectFrom(open, f, 1, Null, Infinity)

\* the open node of minimal fScore, the first inserted among equals
SelectCurrent(open, f) == SelectFrom(open, f, 1, Null, Infinity)

InSeq(x, seq) == \E i \in 1..Len(seq) : seq[i] = x

Without(seq, x) == SelectSeq(seq, LAMBDA y : y # x)

\* variant: a closed neighbour is treated like any other
RelaxReopening(nodes, e, st, current, entry) ==
    LET neighbor == entry.id
        tentativeGScore == Plus(st.gScore[current], entry.w)
        known == InSeq(neighbor, st.openSet)
        neighborCoords == getNodeCoordinates(nodes, neighbor)
        g2 == [st.gScore EXCEPT ![neighbor] = tentativeGScore]
    IN  IF known /\ Ge(tentativeGScore, st.gScore[neighbor]) THEN st
        ELSE [st EXCEPT
                !.openSet = IF known THEN @ ELSE Append(@, neighbor),
                !.previous = [@ EXCEPT ![neighbor] = current],
                !.gScore = g2,
                !.fScore = IF neighborCoords.found
                           THEN [@ EXCEPT ![neighbor] =
                                   Plus(tentativeGScore,
                                        heuristicDistance(neighborCoords,
                                            getNodeCoordinates(nodes, e)))]
                           ELSE @]

\* the body of the neighbour loop for one neighbour
Relax(nodes, e, st, current, entry) ==
    LET neighbor == entry.id
        tentativeGScore == Plus(st.gScore[current], entry.w)
        known == InSeq(neighbor, st.openSet)
        neighborCoords == getNodeCoordinates(nodes, neighbor)
        g2 == [st.gScore EXCEPT ![neighbor] = tentativeGScore]
    IN  IF neighbor \in st.closedSet THEN st
        ELSE IF known /\ Ge(tentativeGScore, st.gScore[neighbor]) THEN st
        ELSE [st EXCEPT
                !.openSet = IF known THEN @ ELSE Append(@, neighbor),
                !.previous = [@ EXCEPT ![neighbor] = current],
                !.gScore = g2,
                !.fScore = IF neighborCoords.found
                           THEN [@ EXCEPT ![neighbor] =
                                   Plus(tentativeGScore,
                                        heuristicDistance(neighborCoords,
                                            getNodeCoordinates(nodes, e)))]
                           ELSE @]

RECURSIVE ExpandFrom(_, _, _, _, _, _)
ExpandFrom(nodes, e, st, current, adj, i) ==
    IF i > Len(adj) THEN st
    ELSE ExpandFrom(nodes, e, Relax(nodes, e, st, current, adj[i]),
                    current, adj, i + 1)

\* variant: the neighbour loop runs over the keys of the whole map instead of
\* the entries of current
IterationAllKeys(graph, nodes, e, st) ==
    LET current == SelectCurrent(st.openSet, st.fScore)
        order == IdSequence(nodes)
        keys == SelectSeq(order, LAMBDA k : HasKey(graph, k))
        all == [i \in 1..Len(keys) |-> [id |-> keys[i], w |-> Weight(graph, current, keys[i])]]
    IN  IF Len(st.openSet) = 0 \/ current = Null \/ current = e
        THEN [exit |-> TRUE, current |-> current, st |-> st]
        ELSE [exit |-> FALSE, current |-> current,
              st |-> ExpandFrom(nodes, e,
                        [st EXCEPT !.openSet = Without(@, current),
                                   !.closedSet = @ \cup {current}],
                        current, all, 1)]

\* variant: the loop is also left as soon as end is in the open set
IterationUntilDiscovered(graph, nodes, e, st) ==
    LET current == SelectCurrent(st.openSet, st.fScore)
    IN  IF Len(st.openSet) = 0 \/ current = Null \/ current = e
           \/ InSeq(e, st.openSet)
        THEN [exit |-> TRUE, current |-> current, st |-> st]
        ELSE [exit |-> FALSE, current |-> current,
              st |-> ExpandFrom(nodes, e,
                        [st EXCEPT !.openSet = Without(@, current),
                                   !.closedSet = @ \cup {current}],
                        current, Neighbors(graph, current), 1)]

\* one iteration of the main loop: the state after it and whether the loop
\* was left (open set empty, nothing selectable, or end selected)
Iteration(graph, nodes, e, st) ==
    LET current == SelectCurrent(st.openSet, st.fScore)
    IN  IF Len(st.openSet) = 0 \/ current = Null \/ current = e
        THEN [exit |-> TRUE, current |-> current, st |-> st]
        ELSE [exit |-> FALSE, current |-> current,
              st |-> ExpandFrom(nodes, e,
                        [st EXCEPT !.openSet = Without(@, current),
                                   !.closedSet = @ \cup {current}],
                        current, Neighbors(graph, current), 1)]

RECURSIVE PathBack(_, _, _, _)
PathBack(prev, current, path, fuel) ==
    IF current = Null THEN [ends |-> TRUE, path |-> path]
    ELSE IF current = NoId \/ fuel = 0 THEN [ends |-> FALSE, path |-> path]
    ELSE PathBack(prev, prev[current], <<current>> \o path, fuel - 1)

\* variant: any non-empty list is returned
ReconstructAnyLength(prev, s, e) ==
    LET back == PathBack(prev, e, <<>>, Cardinality(AllIds) + 1)
    IN  IF ~back.ends THEN [kind |-> "hang", path |-> <<>>]
        ELSE IF Len(back.path) > 0
             THEN PathResult(back.path)
             ELSE NullResult

\* path reconstruction and the final test on the path
Reconstruct(prev, s, e) ==
    LET back == PathBack(prev, e, <<>>, Cardinality(AllIds) + 1)
    IN  IF ~back.ends THEN [kind |-> "hang", path |-> <<>>]
        ELSE IF Len(back.path) > 1 /\ back.path[1] = s
             THEN PathResult(back.path)
             ELSE NullResult

RECURSIVE SearchLoop(_, _, _, _)
SearchLoop(graph, nodes, e, st) ==
    LET it == Iteration(graph, nodes, e, st)
    IN  IF it.exit THEN st ELSE SearchLoop(graph, nodes, e, it.st)

\* astarPath(start, end) run to completion on the given store
astarPath(graph, nodes, s, e) ==
    IF Rejects(graph, nodes, s, e) THEN NullResult
    ELSE Reconstruct(SearchLoop(graph, nodes, e,
                                InitialScores(graph, nodes, s, e)).previous,
                     s, e)

-----------------------------------------------------------------------------
(* Loaded floor data: the graphs the initial states draw from *)

\* the adjacency map whose entry u -> v has weight w[<<u, v>>] (Undefined:
\* no entry), keys and neighbours in the order of `order`; a node without
\* entries has the key with an empty object iff emptyKeys
BuildGraph(order, w, emptyKeys) ==
    LET ids == {order[i] : i \in 1..Len(order)}
        cand(u) == [i \in 1..Len(order) |-> [id |-> order[i], w |-> w[<<u, order[i]>>]]]
        adj(u) == SelectSeq(cand(u), LAMBDA en : en.w # Undefined)
        keys == {u \in ids : emptyKeys \/ Len(adj(u)) > 0}
    IN  [u \in keys |-> adj(u)]

\* straight-line distance between two node records
NodeDistance(a, b) == heuristicDistance([x |-> a.x, y |-> a.y], [x |-> b.x, y |-> b.y])

\* weight of the entry u -> v under edge option opt of the pair {u, v},
\* u before v in the node order iff forward
OptionWeight(opt, forward, dist) ==
    CASE opt = "both"  -> dist
      [] opt = "heavy" -> dist + Extra
      [] opt = "low"   -> dist \div 2
      [] opt = "fwd"   -> IF forward THEN dist ELSE Undefined
      [] opt = "bwd"   -> IF forward THEN Undefined ELSE dist
      [] OTHER         -> Undefined

IndexOf(order, id) == CHOOSE i \in 1..Len(order) : order[i] = id

\* the weights of a graph over the node records `recs` given one option per
\* unordered pair of positions in `order`
WeightsOf(order, recs, opts) ==
    [p \in {<<u, v>> : u \in NodeIds(recs), v \in NodeIds(recs)} |->
        LET i == IndexOf(order, p[1])
            j == IndexOf(order, p[2])
        IN  IF i = j THEN Undefined
            ELSE OptionWeight(opts[<<IF i < j THEN i ELSE j, IF i < j THEN j ELSE i>>],
                              i < j,
                              NodeDistance(FindNode(recs, p[1]), FindNode(recs, p[2])))]

\* third-floor fragment used by the planner: four nodes on the corners of a
\* 180 x 240 rectangle (sides 180 and 240, diagonals 300)
PlannerNodes ==
    << Node("class_310", 0, 0, "class", "Room 310", TRUE),
       Node("invisible_1", 180, 0, "invisible", "Corridor 1", FALSE),
       Node("intersection_1", 0, 240, "intersection", "Junction 1", FALSE),
       Node("class_305", 180, 240, "class", "Room 305", TRUE) >>

PlannerOrder == IdSequence(PlannerNodes)

PlannerPairs == {<<i, j>> \in (1..4) \X (1..4) : i < j}

\* edge options of a pair: the diagonal class_310 - class_305 and the side
\* class_310 - invisible_1 also come one-directional or under-weighted
PlannerOptions(p) ==
    IF p = <<1, 4>> THEN {"none", "both", "heavy", "fwd", "low"}
    ELSE IF p = <<1, 2>> THEN {"none", "both", "heavy", "fwd", "bwd"}
    ELSE {"none", "both", "heavy"}

\* node lists loaded with the graph: complete, with the record of
\* intersection_1 missing, or with invisible_1 lacking its position
PlannerNodeLists ==
    { PlannerNodes,
      SelectSeq(PlannerNodes, LAMBDA n : n.id # "intersection_1"),
      [i \in 1..Len(PlannerNodes) |->
          IF PlannerNodes[i].id = "invisible_1"
          THEN [PlannerNodes[i] EXCEPT !.x = Undefined, !.y = Undefined]
          ELSE PlannerNodes[i]] }

QueryIds == NodeIds(PlannerNodes) \cup {"nonexistent_node_1"}

NoCall == [start |-> NoId, end |-> NoId, result |-> NoResult]

IdleScores == [n \in AllIds |-> Undefined]
IdlePrevious == [n \in AllIds |-> NoId]

PlannerIdle ==
    /\ pc = "idle"
    /\ start = NoId /\ end = NoId
    /\ openSet = <<>> /\ closedSet = {}
    /\ gScore = IdleScores /\ fScore = IdleScores /\ previous = IdlePrevious
    /\ iterations = 0
    /\ result = NoResult
    /\ lastCall = NoCall

NoReport == [generated |-> FALSE, totalFixes |-> 0, successfulFixes |-> 0,
             validationPassed |-> FALSE]

\* a new CompletePathFix, applyAllFixes not started
RepairIdle ==
    /\ phase = "fixRoomConnections"
    /\ appliedFixes = <<>>
    /\ fixes = <<>>
    /\ validationResults = <<>>
    /\ report = NoReport

\* a new Debug310To305, no diagnosis run; no earlier run of applyAllFixes
NoDebug == [room310 |-> NoNode, room305 |-> NoNode]

NoRun == [completed |-> FALSE, graph |-> <<>>, nodes |-> <<>>]

ToolsIdle ==
    /\ debug = NoDebug
    /\ lastRun = NoRun
    /\ runsLeft = 0

\* loadFloorData: nodes and adjacency map as read from the data file
InitPlanner ==
    /\ \E opts \in [PlannerPairs -> {"none", "both", "heavy", "fwd", "bwd", "low"}],
          emptyKeys \in BOOLEAN, nodes \in PlannerNodeLists :
          /\ \A p \in PlannerPairs : opts[p] \in PlannerOptions(p)
          /\ campusNodes = nodes
          /\ campusGraph = BuildGraph(PlannerOrder,
                                      WeightsOf(PlannerOrder, PlannerNodes, opts),
                                      emptyKeys)
    /\ PlannerIdle
    /\ callsLeft = 1
    /\ RepairIdle
    /\ ToolsIdle

-----------------------------------------------------------------------------
(* astarPath as the caller sees it: call, loop iterations, return *)

\* entry of astarPath(s, e): the early returns, then fresh per-call state
Call(s, e) ==
    /\ pc \in {"idle", "returned"}
    /\ callsLeft > 0
    /\ callsLeft' = callsLeft - 1
    /\ lastCall' = IF pc = "returned"
                   THEN [start |-> start, end |-> end, result |-> result]
                   ELSE lastCall
    /\ start' = s /\ end' = e
    /\ iterations' = 0
    /\ IF Rejects(campusGraph, campusNodes, s, e)
       THEN /\ pc' = "returned"
            /\ result' = NullResult
            /\ openSet' = <<>> /\ closedSet' = {}
            /\ gScore' = IdleScores /\ fScore' = IdleScores
            /\ previous' = IdlePrevious
       ELSE LET st == InitialScores(campusGraph, campusNodes, s, e)
            IN  /\ pc' = "exploring"
                /\ result' = NoResult
                /\ openSet' = st.openSet /\ closedSet' = st.closedSet
                /\ gScore' = st.gScore /\ fScore' = st.fScore
                /\ previous' = st.previous
    /\ UNCHANGED <<storeVars, repairVars>>

CallState ==
    [openSet |-> openSet, closedSet |-> closedSet, gScore |-> gScore,
     fScore |-> fScore, previous |-> previous]

\* variant: the neighbour lookup creates the missing entry of current
\* (campusGraph[current] ||= {})
IterateCreatingEntries ==
    /\ pc = "exploring"
    /\ LET it == Iteration(campusGraph, campusNodes, end, CallState)
       IN  IF it.exit
           THEN /\ pc' = "reconstruct"
                /\ UNCHANGED <<openSet, closedSet, gScore, fScore, previous,
                               iterations, campusGraph>>
           ELSE /\ pc' = "exploring"
                /\ openSet' = it.st.openSet /\ closedSet' = it.st.closedSet
                /\ gScore' = it.st.gScore /\ fScore' = it.st.fScore
                /\ previous' = it.st.previous
                /\ iterations' = iterations + 1
                /\ campusGraph' =
                     IF HasKey(campusGraph, it.current) THEN campusGraph
                     ELSE [k \in DOMAIN campusGraph \cup {it.current} |->
                             Neighbors(campusGraph, k)]
    /\ UNCHANGED <<start, end, result, lastCall, callsLeft, campusNodes, repairVars>>

\* one pass of while (openSet.size > 0)
Iterate ==
    /\ pc = "exploring"
    /\ LET it == Iteration(campusGraph, campusNodes, end, CallState)
       IN  IF it.exit
           THEN /\ pc' = "reconstruct"
                /\ UNCHANGED <<openSet, closedSet, gScore, fScore, previous,
                               iterations>>
           ELSE /\ pc' = "exploring"
                /\ openSet' = it.st.openSet /\ closedSet' = it.st.closedSet
                /\ gScore' = it.st.gScore /\ fScore' = it.st.fScore
                /\ previous' = it.st.previous
                /\ iterations' = iterations + 1
    /\ UNCHANGED <<start, end, result, lastCall, callsLeft, storeVars, repairVars>>

\* path reconstruction and return
Return ==
    /\ pc = "reconstruct"
    /\ pc' = "returned"
    /\ result' = Reconstruct(previous, start, end)
    /\ UNCHANGED <<start, end, openSet, closedSet, gScore, fScore, previous,
                   iterations, lastCall, callsLeft, storeVars, repairVars>>

NextPlanner ==
    \/ \E s \in QueryIds, e \in QueryIds : Call(s, e)
    \/ Iterate
    \/ Return

\* one query on each loaded graph
SpecPlanner == InitPlanner /\ [][NextPlanner]_vars

\* edge options of the graphs queried repeatedly: the rectangle with its side
\* intersection_1 - class_305 present, the other sides optional (one of them
\* possibly one-directional) and an optional heavy diagonal
SequenceOptions(p) ==
    IF p = <<1, 2>> THEN {"none", "both", "fwd"}
    ELSE IF p = <<1, 3>> \/ p = <<2, 4>> THEN {"none", "both"}
    ELSE IF p = <<3, 4>> THEN {"both"}
    ELSE IF p = <<1, 4>> THEN {"none", "heavy"}
    ELSE {"none"}

InitSequence ==
    /\ \E opts \in [PlannerPairs -> {"none", "both", "heavy", "fwd"}],
          emptyKeys \in BOOLEAN :
          /\ \A p \in PlannerPairs : opts[p] \in SequenceOptions(p)
          /\ campusNodes = PlannerNodes
          /\ campusGraph = BuildGraph(PlannerOrder,
                                      WeightsOf(PlannerOrder, PlannerNodes, opts),
                                      emptyKeys)
    /\ PlannerIdle
    /\ callsLeft = MaxCalls
    /\ RepairIdle
    /\ ToolsIdle

\* several queries one after the other on the same graph; each runs to
\* completion before the next starts (findPathAsync tasks interleave only
\* between calls)
SpecSequence == InitSequence /\ [][NextPlanner]_vars

-----------------------------------------------------------------------------
(* Graph repair: CompletePathFix *)

\* if (!graph[a]) graph[a] = {}
EnsureKey(graph, a) ==
    IF HasKey(graph, a) THEN graph ELSE graph @@ (a :> <<>>)

\* graph[a][b] = w, for an existing object graph[a]: an existing entry keeps
\* its place, a new one is appended
SetEntry(graph, a, b, w) ==
    LET adj == graph[a]
        new == IF b \in NeighborIds(graph, a)
               THEN LET k == CHOOSE i \in 1..Len(adj) : adj[i].id = b
                    IN  SubSeq(adj, 1, k - 1) \o <<[id |-> b, w |-> w]>>
                            \o SubSeq(adj, k + 1, Len(adj))
               ELSE Append(adj, [id |-> b, w |-> w])
    IN  [graph EXCEPT ![a] = new]

\* calculateDistance(node1, node2)
calculateDistance(node1, node2) == NodeDistance(node1, node2)

RECURSIVE NearestFrom(_, _, _, _, _, _)
NearestFrom(graph, nodes, targetNode, i, nearest, minDistance) ==
    IF i > Len(nodes) THEN nearest
    ELSE LET node == nodes[i]
             distance == calculateDistance(targetNode, node)
         IN  IF /\ node.id # targetNode.id
                /\ ~IsIsolated(graph, node.id)
                /\ Lt(distance, minDistance)
             THEN NearestFrom(graph, nodes, targetNode, i + 1, node, distance)
             ELSE NearestFrom(graph, nodes, targetNode, i + 1, nearest, minDistance)

\* findNearestConnectedNode(targetNode); NoNode for null
findNearestConnectedNode(graph, nodes, targetNode) ==
    NearestFrom(graph, nodes, targetNode, 1, NoNode, Infinity)

\* findNodesWithinRadius(centerNode, radius)
findNodesWithinRadius(nodes, centerNode, radius) ==
    SelectSeq(nodes, LAMBDA node :
        /\ node.id # centerNode.id
        /\ LET distance == calculateDistance(centerNode, node)
           IN  IsNum(distance) /\ distance <= radius)

\* a bidirectional connection a <-> b of weight w, creating both objects
Connect(graph, a, b, w) ==
    LET g1 == EnsureKey(EnsureKey(graph, a), b)
    IN  SetEntry(SetEntry(g1, a, b, w), b, a, w)

RECURSIVE ConnectRooms(_, _, _, _)
ConnectRooms(graph, nodes, classrooms, i) ==
    IF i > Len(classrooms) THEN graph
    ELSE LET classroom == classrooms[i]
             nearestConnection == findNearestConnectedNode(graph, nodes, classroom)
         IN  IF IsIsolated(graph, classroom.id) /\ nearestConnection.id # NoId
             THEN CallByValue(
                      LAMBDA g2 : ConnectRooms(g2, nodes, classrooms, i + 1),
                      Connect(graph, classroom.id, nearestConnection.id,
                              calculateDistance(classroom, nearestConnection)))
             ELSE ConnectRooms(graph, nodes, classrooms, i + 1)

\* the adjacency map after fixRoomConnections
RoomConnections(graph, nodes) ==
    ConnectRooms(graph, nodes, SelectSeq(nodes, LAMBDA n : n.type = "class"), 1)

HubRadius == 150

RECURSIVE ConnectNearby(_, _, _, _)
ConnectNearby(graph, hub, nearbyNodes, j) ==
    IF j > Len(nearbyNodes) THEN graph
    ELSE LET nearbyNode == nearbyNodes[j]
             g1 == EnsureKey(EnsureKey(graph, hub.id), nearbyNode.id)
             distance == calculateDistance(hub, nearbyNode)
         IN  IF nearbyNode.id # hub.id /\ nearbyNode.type # "invisible"
             THEN CallByValue(
                      LAMBDA g2 : ConnectNearby(g2, hub, nearbyNodes, j + 1),
                      IF ~Truthy(Weight(g1, hub.id, nearbyNode.id))
                      THEN SetEntry(SetEntry(g1, hub.id, nearbyNode.id, distance),
                                    nearbyNode.id, hub.id, distance)
                      ELSE g1)
             ELSE ConnectNearby(graph, hub, nearbyNodes, j + 1)

RECURSIVE ConnectHubs(_, _, _, _)
ConnectHubs(graph, nodes, hubs, i) ==
    IF i > Len(hubs) THEN graph
    ELSE CallByValue(
             LAMBDA g2 : ConnectHubs(g2, nodes, hubs, i + 1),
             ConnectNearby(graph, hubs[i],
                           findNodesWithinRadius(nodes, hubs[i], HubRadius), 1))

\* the adjacency map after fixHubConnections
HubConnections(graph, nodes) ==
    ConnectHubs(graph, nodes, SelectSeq(nodes, LAMBDA n : n.type = "intersection"), 1)

\* label.includes(sub), for the labels of the model
LabelIncludes(label, sub) ==
    sub \in (CASE label = "Room 310"   -> {"310"}
               [] label = "Room 305"   -> {"305"}
               [] label = "Room 314"   -> {"314"}
               [] label = "Main Hub 4" -> {"Hub 4"}
               [] label = "Hub 310-305" -> {"310", "305"}
               [] OTHER                -> {})

\* nodes.find(test) over the indices satisfying it; NoNode for undefined
FirstNode(nodes, matching) ==
    IF matching = {} THEN NoNode
    ELSE nodes[CHOOSE i \in matching : \A j \in matching : i <= j]

Room310(nodes) ==
    FirstNode(nodes, {i \in 1..Len(nodes) :
        nodes[i].id = "room_310" \/ LabelIncludes(nodes[i].label, "310")})

Room305(nodes) ==
    FirstNode(nodes, {i \in 1..Len(nodes) :
        nodes[i].id = "room_305" \/ LabelIncludes(nodes[i].label, "305")})

Room314(nodes) ==
    FirstNode(nodes, {i \in 1..Len(nodes) :
        \/ nodes[i].id = "room_314"
        \/ LabelIncludes(nodes[i].label, "314")
        \/ nodes[i].id = "class_314"})

Hub4(nodes) ==
    FirstNode(nodes, {i \in 1..Len(nodes) :
        \/ nodes[i].id = "main_hub_4"
        \/ nodes[i].id = "hub_4"
        \/ LabelIncludes(nodes[i].label, "Hub 4")})

\* window.astarPath(graph, nodes, start, end): the planner of the page.  Its
\* source is not part of the repository files at hand; it is taken to be the
\* A* of PathfindingTester.astarPath.
windowAstarPath(graph, nodes, s, e) == astarPath(graph, nodes, s, e)

\* CompletePathFix.findPath(start, end)
findPath(graph, nodes, s, e) == windowAstarPath(graph, nodes, s, e)

\* path && path.length > 0
PathFound(path) == path.kind = "path" /\ Len(path.path) > 0

\* squared distance of a node to the midpoint of two rooms, in half units
\* (its order is the order of Math.sqrt of it)
MidpointDistance(node, room1, room2) ==
    IF ~HasPosition(node) \/ ~HasPosition(room1) \/ ~HasPosition(room2) THEN NaN
    ELSE LET dx == 2 * node.x - (room1.x + room2.x)
             dy == 2 * node.y - (room1.y + room2.y)
         IN  dx * dx + dy * dy

RECURSIVE WaypointFrom(_, _, _, _, _, _)
WaypointFrom(nodes, room1, room2, i, bestWaypoint, minDistance) ==
    IF i > Len(nodes) THEN bestWaypoint
    ELSE LET node == nodes[i]
             distanceToMid == MidpointDistance(node, room1, room2)
         IN  IF /\ node.type \in {"intersection", "invisible"}
                /\ Lt(distanceToMid, minDistance)
             THEN WaypointFrom(nodes, room1, room2, i + 1, node, distanceToMid)
             ELSE WaypointFrom(nodes, room1, room2, i + 1, bestWaypoint, minDistance)

\* findBestWaypointBetweenRooms(room1, room2); NoNode for null
findBestWaypointBetweenRooms(nodes, room1, room2) ==
    WaypointFrom(nodes, room1, room2, 1, NoNode, Infinity)

\* the waypoint insertion of fixRoom310To305: the adjacency map it leaves
\* and whether the last assignment hit a missing graph[room305.id]
InsertWaypoint(graph, room310, room305, waypoint) ==
    LET g1 == EnsureKey(EnsureKey(graph, room310.id), waypoint.id)
        dist310 == calculateDistance(room310, waypoint)
        dist305 == calculateDistance(waypoint, room305)
        g2 == SetEntry(SetEntry(g1, room310.id, waypoint.id, dist310),
                       waypoint.id, room310.id, dist310)
        g3 == SetEntry(g2, waypoint.id, room305.id, dist305)
    IN  IF HasKey(g3, room305.id)
        THEN [graph |-> SetEntry(g3, room305.id, waypoint.id, dist305), threw |-> FALSE]
        ELSE [graph |-> g3, threw |-> TRUE]

\* variant: the waypoint is inserted whether or not a route exists
Room310To305AnyPath(graph, nodes) ==
    LET room310 == Room310(nodes)
        room305 == Room305(nodes)
        waypoint == findBestWaypointBetweenRooms(nodes, room310, room305)
        ins == IF waypoint.id # NoId
               THEN InsertWaypoint(graph, room310, room305, waypoint)
               ELSE [graph |-> graph, threw |-> FALSE]
    IN  IF room310.id = NoId \/ room305.id = NoId
        THEN [outcome |-> "error", graph |-> graph, applied |-> FALSE]
        ELSE IF ins.threw
        THEN [outcome |-> "threw", graph |-> ins.graph, applied |-> FALSE]
        ELSE [outcome |-> "done", graph |-> ins.graph,
              applied |-> PathFound(findPath(ins.graph, nodes, room310.id, room305.id))]

\* fixRoom310To305 on the given store: outcome "error" (a room is missing),
\* "threw" or "done", the adjacency map left and fix.applied
Room310To305(graph, nodes) ==
    LET room310 == Room310(nodes)
        room305 == Room305(nodes)
        currentPath == findPath(graph, nodes, room310.id, room305.id)
        waypoint == findBestWaypointBetweenRooms(nodes, room310, room305)
        ins == IF ~PathFound(currentPath) /\ waypoint.id # NoId
               THEN InsertWaypoint(graph, room310, room305, waypoint)
               ELSE [graph |-> graph, threw |-> FALSE]
    IN  IF room310.id = NoId \/ room305.id = NoId
        THEN [outcome |-> "error", graph |-> graph, applied |-> FALSE]
        ELSE IF ins.threw
        THEN [outcome |-> "threw", graph |-> ins.graph, applied |-> FALSE]
        ELSE [outcome |-> "done", graph |-> ins.graph,
              applied |-> PathFound(findPath(ins.graph, nodes, room310.id, room305.id))]

\* fixRoom314ToHub4 on the given store: outcome "error" (room 314 missing) or
\* "done", and the store it leaves
Room314ToHub4(graph, nodes) ==
    LET room314 == Room314(nodes)
        hub4 == Hub4(nodes)
        hub4Node == Node("main_hub_4", Plus(room314.x, 50), Plus(room314.y, -30),
                         "intersection", "Main Hub 4", FALSE)
        nodes2 == IF hub4.id = NoId THEN Append(nodes, hub4Node) ELSE nodes
        targetHub == IF hub4.id # NoId THEN hub4 ELSE FindNode(nodes2, "main_hub_4")
    IN  IF room314.id = NoId
        THEN [outcome |-> "error", graph |-> graph, nodes |-> nodes]
        ELSE [outcome |-> "done",
              graph |-> Connect(graph, room314.id, targetHub.id,
                                calculateDistance(room314, targetHub)),
              nodes |-> nodes2]

\* variant: check 2 asks only whether the neighbour is a key of the map
IntegrityIssuesNeighbourKey(graph, nodes, applied) ==
    (IF \E k \in DOMAIN graph : FindNode(nodes, k).id = NoId
     THEN {"missing node data"} ELSE {})
    \cup
    (IF \E k \in DOMAIN graph : \E n \in NeighborIds(graph, k) : ~HasKey(graph, n)
     THEN {"missing reverse connection"} ELSE {})
    \cup
    (IF \E i \in 1..Len(nodes) : IsIsolated(graph, nodes[i].id)
     THEN {"isolated nodes"} ELSE {})
    \cup
    (IF /\ InSeq("room310to305", applied)
        /\ ~PathFound(findPath(graph, nodes, "room_310", "room_305"))
     THEN {"room 310 to 305 path"} ELSE {})

\* the kinds of issue validateGraphIntegrity records
IntegrityIssues(graph, nodes, applied) ==
    (IF \E k \in DOMAIN graph : FindNode(nodes, k).id = NoId
     THEN {"missing node data"} ELSE {})
    \cup
    (IF \E k \in DOMAIN graph : \E n \in NeighborIds(graph, k) :
            ~HasKey(graph, n) \/ ~Truthy(Weight(graph, n, k))
     THEN {"missing reverse connection"} ELSE {})
    \cup
    (IF \E i \in 1..Len(nodes) : IsIsolated(graph, nodes[i].id)
     THEN {"isolated nodes"} ELSE {})
    \cup
    (IF /\ InSeq("room310to305", applied)
        /\ ~PathFound(findPath(graph, nodes, "room_310", "room_305"))
     THEN {"room 310 to 305 path"} ELSE {})

-----------------------------------------------------------------------------
(* Debug310To305: the diagnosis of the route Room 310 -> Room 305 *)

\* id.includes(sub), for the ids and number substrings in use
IdIncludes(id, sub) ==
    sub \in (CASE id = "class_310"   -> {"310"}
               [] id = "class_305"   -> {"305"}
               [] id = "class_314"   -> {"314"}
               [] id = "hub_310_305" -> {"310", "305"}
               [] OTHER              -> {})

\* verifyNodesExist: every variant of the loop tests the same two includes,
\* so the first node whose label or id includes the number is found
DebugRoom(nodes, number) ==
    FirstNode(nodes, {i \in 1..Len(nodes) :
        \/ LabelIncludes(nodes[i].label, number)
        \/ IdIncludes(nodes[i].id, number)})

verifyNodesExist(nodes) ==
    [room310 |-> DebugRoom(nodes, "310"), room305 |-> DebugRoom(nodes, "305")]

RoomsFound(rooms) == rooms.room310.id # NoId /\ rooms.room305.id # NoId

\* radius of analyzeConnectivity and the limit of a direct connection
NearbyRadius == 100
DirectLimit == 150

\* findNearbyNodes(centerNode, radius)
findNearbyNodes(nodes, centerNode, radius) ==
    SelectSeq(nodes, LAMBDA node :
        /\ node.id # centerNode.id
        /\ LET distance == calculateDistance(centerNode, node)
           IN  IsNum(distance) /\ distance <= radius)

\* analyzeConnectivity: the nodes near both rooms
potentialWaypoints(nodes, rooms) ==
    LET nearRoom305 == findNearbyNodes(nodes, rooms.room305, NearbyRadius)
    IN  SelectSeq(findNearbyNodes(nodes, rooms.room310, NearbyRadius),
                  LAMBDA n310 : \E k \in 1..Len(nearRoom305) :
                                    nearRoom305[k].id = n310.id)

\* suggestFixes: the kinds of the suggestions, in order
suggestFixes(nodes, rooms) ==
    LET directDistance == calculateDistance(rooms.room310, rooms.room305)
    IN  (IF Lt(directDistance, DirectLimit) THEN <<"direct_connection">> ELSE <<>>)
        \o (IF Len(potentialWaypoints(nodes, rooms)) > 0
            THEN <<"waypoint_connection">> ELSE <<>>)
        \o <<"intermediate_hub", "enhance_nearby">>

\* addDirectConnection, the rooms being known
addDirectConnection(store, rooms) ==
    [store EXCEPT !.graph =
        Connect(store.graph, rooms.room310.id, rooms.room305.id,
                calculateDistance(rooms.room310, rooms.room305))]

\* addWaypointConnection(waypoint)
addWaypointConnection(store, rooms, waypoint) ==
    LET g1 == Connect(store.graph, rooms.room310.id, waypoint.id,
                      calculateDistance(rooms.room310, waypoint))
        g2 == EnsureKey(g1, rooms.room305.id)
    IN  [store EXCEPT !.graph =
            SetEntry(SetEntry(g2, waypoint.id, rooms.room305.id,
                              calculateDistance(waypoint, rooms.room305)),
                     rooms.room305.id, waypoint.id,
                     calculateDistance(waypoint, rooms.room305))]

\* (a + b) / 2; the loaded positions are even numbers
Half(a) == IF IsNum(a) THEN a \div 2 ELSE NaN

\* graph[id] = {}
ResetKey(graph, id) == (id :> <<>>) @@ graph

\* variant: the hub is wired into the map but its record is not pushed
addIntermediateHubUnrecorded(store, rooms) ==
    LET hubNode == Node("hub_310_305",
                        Half(Plus(rooms.room310.x, rooms.room305.x)),
                        Half(Plus(rooms.room310.y, rooms.room305.y)),
                        "intersection", "Hub 310-305", FALSE)
        g1 == EnsureKey(EnsureKey(ResetKey(store.graph, hubNode.id),
                                  rooms.room310.id), rooms.room305.id)
        dist310 == calculateDistance(rooms.room310, hubNode)
        dist305 == calculateDistance(rooms.room305, hubNode)
        g2 == SetEntry(SetEntry(g1, rooms.room310.id, hubNode.id, dist310),
                       hubNode.id, rooms.room310.id, dist310)
    IN  [graph |-> SetEntry(SetEntry(g2, rooms.room305.id, hubNode.id, dist305),
                            hubNode.id, rooms.room305.id, dist305),
         nodes |-> store.nodes]

\* addIntermediateHub, the rooms being known
addIntermediateHub(store, rooms) ==
    LET hubNode == Node("hub_310_305",
                        Half(Plus(rooms.room310.x, rooms.room305.x)),
                        Half(Plus(rooms.room310.y, rooms.room305.y)),
                        "intersection", "Hub 310-305", FALSE)
        g1 == EnsureKey(EnsureKey(ResetKey(store.graph, hubNode.id),
                                  rooms.room310.id), rooms.room305.id)
        dist310 == calculateDistance(rooms.room310, hubNode)
        dist305 == calculateDistance(rooms.room305, hubNode)
        g2 == SetEntry(SetEntry(g1, rooms.room310.id, hubNode.id, dist310),
                       hubNode.id, rooms.room310.id, dist310)
    IN  [graph |-> SetEntry(SetEntry(g2, rooms.room305.id, hubNode.id, dist305),
                            hubNode.id, rooms.room305.id, dist305),
         nodes |-> Append(store.nodes, hubNode)]

\* suggestion.implementation()
Implementation(store, rooms, kind) ==
    CASE kind = "direct_connection"   -> addDirectConnection(store, rooms)
      [] kind = "waypoint_connection" ->
             addWaypointConnection(store, rooms,
                                   potentialWaypoints(store.nodes, rooms)[1])
      [] kind = "intermediate_hub"    -> addIntermediateHub(store, rooms)
      [] OTHER                        -> store

\* variant: every suggestion is applied, whatever the tests find
RECURSIVE ApplyAll(_, _, _, _)
ApplyAll(store, rooms, suggestions, i) ==
    IF i > Len(suggestions) THEN store
    ELSE CallByValue(
             LAMBDA store2 : ApplyAll(store2, rooms, suggestions, i + 1),
             Implementation(store, rooms, suggestions[i]))

\* applyAndTestFixes: each suggestion is applied and tested, the first fix
\* after which a route exists ends the loop
RECURSIVE ApplyAndTest(_, _, _, _)
ApplyAndTest(store, rooms, suggestions, i) ==
    IF i > Len(suggestions) THEN store
    ELSE LET fixed == Implementation(store, rooms, suggestions[i])
             testPath == windowAstarPath(fixed.graph, fixed.nodes,
                                         rooms.room310.id, rooms.room305.id)
         IN  IF PathFound(testPath) THEN fixed
             ELSE CallByValue(
                      LAMBDA store2 : ApplyAndTest(store2, rooms, suggestions, i + 1),
                      fixed)

\* the store after runDiagnosis
Diagnosis(store) ==
    LET rooms == verifyNodesExist(store.nodes)
    IN  IF RoomsFound(rooms)
        THEN ApplyAndTest(store, rooms, suggestFixes(store.nodes, rooms), 1)
        ELSE store

-----------------------------------------------------------------------------
(* applyAllFixes: the fixes in order, one step each *)

FixRecord(name, applied) == [name |-> name, applied |-> applied]

\* Fix 1
FixRoomConnections ==
    /\ phase = "fixRoomConnections"
    /\ campusGraph' = RoomConnections(campusGraph, campusNodes)
    /\ fixes' = Append(fixes, FixRecord("Room Connections Fix", TRUE))
    /\ appliedFixes' = Append(appliedFixes, "roomConnections")
    /\ phase' = "fixHubConnections"
    /\ UNCHANGED <<campusNodes, validationResults, report, plannerVars, toolVars>>

\* Fix 2
FixHubConnections ==
    /\ phase = "fixHubConnections"
    /\ campusGraph' = HubConnections(campusGraph, campusNodes)
    /\ fixes' = Append(fixes, FixRecord("Hub Connections Fix", TRUE))
    /\ appliedFixes' = Append(appliedFixes, "hubConnections")
    /\ phase' = "fixRoom310To305"
    /\ UNCHANGED <<campusNodes, validationResults, report, plannerVars, toolVars>>

\* Fix 3; an exception ends applyAllFixes
FixRoom310To305 ==
    /\ phase = "fixRoom310To305"
    /\ LET r == Room310To305(campusGraph, campusNodes)
       IN  /\ campusGraph' = r.graph
           /\ \/ /\ r.outcome = "error"
                 /\ fixes' = Append(fixes, FixRecord("Room 310-305 Fix", FALSE))
                 /\ appliedFixes' = appliedFixes
                 /\ phase' = "fixRoom314ToHub4"
              \/ /\ r.outcome = "threw"
                 /\ UNCHANGED <<fixes, appliedFixes>>
                 /\ phase' = "threw"
              \/ /\ r.outcome = "done"
                 /\ fixes' = Append(fixes, FixRecord("Room 310-305 Fix", r.applied))
                 /\ appliedFixes' = Append(appliedFixes, "room310to305")
                 /\ phase' = "fixRoom314ToHub4"
    /\ UNCHANGED <<campusNodes, validationResults, report, plannerVars, toolVars>>

\* Fix 4
FixRoom314ToHub4 ==
    /\ phase = "fixRoom314ToHub4"
    /\ LET r == Room314ToHub4(campusGraph, campusNodes)
       IN  /\ campusGraph' = r.graph
           /\ campusNodes' = r.nodes
           /\ \/ /\ r.outcome = "error"
                 /\ fixes' = Append(fixes, FixRecord("Room 314 to Hub 4 Connection", FALSE))
                 /\ appliedFixes' = appliedFixes
              \/ /\ r.outcome = "done"
                 /\ fixes' = Append(fixes, FixRecord("Room 314 to Hub 4 Connection", TRUE))
                 /\ appliedFixes' = Append(appliedFixes, "room314toHub4")
    /\ phase' = "fixCoordinateTransformations"
    /\ UNCHANGED <<validationResults, report, plannerVars, toolVars>>

\* Fix 5: installs a display helper, the store is not touched
FixCoordinateTransformations ==
    /\ phase = "fixCoordinateTransformations"
    /\ fixes' = Append(fixes, FixRecord("Coordinate Transformation Fix", TRUE))
    /\ appliedFixes' = Append(appliedFixes, "coordinateTransformations")
    /\ phase' = "validateGraphIntegrity"
    /\ UNCHANGED <<storeVars, validationResults, report, plannerVars, toolVars>>

\* Fix 6
ValidateGraphIntegrity ==
    /\ phase = "validateGraphIntegrity"
    /\ LET issues == IntegrityIssues(campusGraph, campusNodes, appliedFixes)
       IN  validationResults' =
               Append(validationResults, [passed |-> issues = {}, issues |-> issues])
    /\ phase' = "generateFixReport"
    /\ UNCHANGED <<storeVars, fixes, appliedFixes, report, plannerVars, toolVars>>

\* generateFixReport: applyAllFixes completes
GenerateFixReport ==
    /\ phase = "generateFixReport"
    /\ report' = [generated |-> TRUE,
                  totalFixes |-> Len(fixes),
                  successfulFixes |-> Len(SelectSeq(fixes, LAMBDA f : f.applied)),
                  validationPassed |->
                      \A i \in 1..Len(validationResults) : validationResults[i].passed]
    /\ phase' = "done"
    /\ UNCHANGED <<storeVars, fixes, appliedFixes, validationResults, plannerVars, toolVars>>

NextRepair ==
    \/ FixRoomConnections
    \/ FixHubConnections
    \/ FixRoom310To305
    \/ FixRoom314ToHub4
    \/ FixCoordinateTransformations
    \/ ValidateGraphIntegrity
    \/ GenerateFixReport

\* third-floor fragment handed to the repair: the corners of a 120 x 160
\* rectangle (diagonals 200) and, optionally, a node at its centre, which is
\* a junction or a corridor waypoint
RepairNodes(centre) ==
    << Node("class_310", 0, 0, "class", "Room 310", TRUE),
       IF centre = "intersection"
       THEN Node("intersection_1", 60, 80, "intersection", "Junction 1", FALSE)
       ELSE Node("invisible_1", 60, 80, "invisible", "Corridor 1", FALSE),
       Node("class_305", 120, 160, "class", "Room 305", TRUE),
       Node("stairway_1", 120, 0, "stairway", "Stairway A", TRUE),
       Node("class_314", 0, 160, "class", "Room 314", TRUE) >>

RepairPairs == {<<i, j>> \in (1..5) \X (1..5) : i < j}

\* edge options of a link to the centre: those of the two target rooms also
\* come one-directional
CentreOptions(centre, oneWay) ==
    IF centre = "none" THEN {"none"}
    ELSE IF oneWay THEN {"none", "both", "fwd", "bwd"}
    ELSE {"none", "both"}

\* the floor data present when applyAllFixes starts
InitRepair ==
    /\ \E centre \in {"intersection", "invisible", "none"}, emptyKeys \in BOOLEAN :
       \E c1 \in CentreOptions(centre, TRUE), c3 \in CentreOptions(centre, TRUE),
          c4 \in CentreOptions(centre, FALSE), c5 \in CentreOptions(centre, FALSE),
          stair \in {"none", "both", "fwd"}, side \in {"none", "both"},
          diagonal \in {"none", "heavy"} :
          LET opts == [p \in RepairPairs |->
                         IF p = <<1, 2>> THEN c1
                         ELSE IF p = <<2, 3>> THEN c3
                         ELSE IF p = <<2, 4>> THEN c4
                         ELSE IF p = <<2, 5>> THEN c5
                         ELSE IF p = <<1, 4>> THEN stair
                         ELSE IF p = <<3, 5>> THEN side
                         ELSE IF p = <<1, 3>> THEN diagonal
                         ELSE "none"]
          IN  /\ campusNodes = IF centre = "none"
                               THEN SelectSeq(RepairNodes(centre),
                                              LAMBDA n : n.type # "invisible")
                               ELSE RepairNodes(centre)
              /\ campusGraph = BuildGraph(IdSequence(campusNodes),
                                   WeightsOf(IdSequence(RepairNodes(centre)),
                                             RepairNodes(centre), opts),
                                   emptyKeys)
    /\ PlannerIdle
    /\ callsLeft = 0
    /\ RepairIdle
    /\ ToolsIdle

\* one run of applyAllFixes on each loaded graph
SpecRepair == InitRepair /\ [][NextRepair]_vars

-----------------------------------------------------------------------------
(* Floor data with a malformed node *)

\* the node record without the given coordinates ("x", "y" or "xy")
WithoutPosition(n, missing) ==
    [n EXCEPT !.x = IF missing \in {"x", "xy"} THEN Undefined ELSE @,
              !.y = IF missing \in {"y", "xy"} THEN Undefined ELSE @]

\* the floor data when one node record lacks x, y or both; the weights of
\* the loaded edges are the numbers of the data file
InitMalformed ==
    /\ \E centre \in {"intersection", "invisible"}, emptyKeys \in BOOLEAN,
          broken \in 1..5, missing \in {"x", "y", "xy"} :
       \E c1 \in CentreOptions(centre, FALSE), c3 \in CentreOptions(centre, FALSE),
          side \in {"none", "both"} :
          LET opts == [p \in RepairPairs |->
                         IF p = <<1, 2>> THEN c1
                         ELSE IF p = <<2, 3>> THEN c3
                         ELSE IF p = <<3, 5>> THEN side
                         ELSE "none"]
          IN  /\ campusNodes = [i \in 1..5 |->
                                  IF i = broken
                                  THEN WithoutPosition(RepairNodes(centre)[i], missing)
                                  ELSE RepairNodes(centre)[i]]
              /\ campusGraph = BuildGraph(IdSequence(campusNodes),
                                   WeightsOf(IdSequence(RepairNodes(centre)),
                                             RepairNodes(centre), opts),
                                   emptyKeys)
    /\ PlannerIdle
    /\ callsLeft = 0
    /\ RepairIdle
    /\ ToolsIdle

\* one run of applyAllFixes on each such floor
SpecMalformed == InitMalformed /\ [][NextRepair]_vars

-----------------------------------------------------------------------------
(* Floor data with a data marker *)

\* a data marker (type data_node) with no connection, near the centre of
\* the fragment (80 away) or far from every loaded node
Marker(place) ==
    IF place = "near"
    THEN Node("data_node_1", 60, 0, "data_node", "Data 1", FALSE)
    ELSE Node("data_node_1", 60, 380, "data_node", "Data 1", FALSE)

\* the floor data with an isolated data marker when applyAllFixes starts
InitMarkers ==
    /\ \E centre \in {"intersection", "invisible"}, emptyKeys \in BOOLEAN,
          place \in {"near", "far"} :
       \E c1 \in CentreOptions(centre, FALSE), c3 \in CentreOptions(centre, FALSE),
          stair \in {"none", "both"}, side \in {"none", "both"} :
          LET opts == [p \in RepairPairs |->
                         IF p = <<1, 2>> THEN c1
                         ELSE IF p = <<2, 3>> THEN c3
                         ELSE IF p = <<1, 4>> THEN stair
                         ELSE IF p = <<3, 5>> THEN side
                         ELSE "none"]
              loaded == WeightsOf(IdSequence(RepairNodes(centre)),
                                  RepairNodes(centre), opts)
              ids == NodeIds(RepairNodes(centre)) \cup {"data_node_1"}
          IN  /\ campusNodes = Append(RepairNodes(centre), Marker(place))
              /\ campusGraph = BuildGraph(IdSequence(campusNodes),
                                   [p \in ids \X ids |->
                                       IF "data_node_1" \in {p[1], p[2]}
                                       THEN Undefined ELSE loaded[p]],
                                   emptyKeys)
    /\ PlannerIdle
    /\ callsLeft = 0
    /\ RepairIdle
    /\ ToolsIdle

\* one run of applyAllFixes on each floor with a data marker
SpecMarkers == InitMarkers /\ [][NextRepair]_vars

-----------------------------------------------------------------------------
(* Floor data on which the verification of applyAllFixes can pass *)

\* the rectangle of the repair with the two target rooms under the ids
\* 'room_310' and 'room_305'
LiteralNodes(centre) ==
    [i \in 1..5 |->
        LET n == RepairNodes(centre)[i]
        IN  IF n.id = "class_310" THEN [n EXCEPT !.id = "room_310"]
            ELSE IF n.id = "class_305" THEN [n EXCEPT !.id = "room_305"]
            ELSE n]

\* the floor data when the two target rooms carry the literal ids
\* ("literal"), when the node list has no record of them ("absent"), and
\* when the node list has no record of them but the adjacency map still
\* has their entries ("stale")
InitReport ==
    /\ \E rooms \in {"literal", "absent", "stale"},
          centre \in {"intersection", "invisible"}, emptyKeys \in BOOLEAN :
       \E c1 \in CentreOptions(centre, TRUE), c3 \in CentreOptions(centre, TRUE),
          c4 \in CentreOptions(centre, FALSE), c5 \in CentreOptions(centre, FALSE),
          stair \in {"none", "both", "fwd"}, side \in {"none", "both"} :
          LET opts == [p \in RepairPairs |->
                         IF p = <<1, 2>> THEN c1
                         ELSE IF p = <<2, 3>> THEN c3
                         ELSE IF p = <<2, 4>> THEN c4
                         ELSE IF p = <<2, 5>> THEN c5
                         ELSE IF p = <<1, 4>> THEN stair
                         ELSE IF p = <<3, 5>> THEN side
                         ELSE "none"]
              recs == IF rooms = "literal" THEN LiteralNodes(centre)
                      ELSE RepairNodes(centre)
          IN  /\ campusNodes = IF rooms = "literal" THEN recs
                               ELSE SelectSeq(recs, LAMBDA n :
                                        n.id \notin {"class_310", "class_305"})
              /\ campusGraph = BuildGraph(IF rooms = "stale" THEN IdSequence(recs)
                                          ELSE IdSequence(campusNodes),
                                   WeightsOf(IdSequence(recs), recs, opts),
                                   emptyKeys)
    /\ PlannerIdle
    /\ callsLeft = 0
    /\ RepairIdle
    /\ ToolsIdle

\* one run of applyAllFixes on each of these floors
SpecReport == InitReport /\ [][NextRepair]_vars

-----------------------------------------------------------------------------
(* The repair operations as the page invokes them, in any order *)

Store == [graph |-> campusGraph, nodes |-> campusNodes]

\* no operation is running: the handlers run to completion one at a time
Quiet == phase \in {"idle", "done", "threw"}

\* window.completePathFix = new CompletePathFix(); applyAllFixes() starts
StartApplyAllFixes ==
    /\ Quiet
    /\ runsLeft > 0
    /\ runsLeft' = runsLeft - 1
    /\ lastRun' = IF phase = "done"
                  THEN [completed |-> TRUE, graph |-> campusGraph,
                        nodes |-> campusNodes]
                  ELSE NoRun
    /\ phase' = "fixRoomConnections"
    /\ appliedFixes' = <<>>
    /\ fixes' = <<>>
    /\ validationResults' = <<>>
    /\ report' = NoReport
    /\ UNCHANGED <<storeVars, debug, plannerVars>>

\* fixRoom314ToHub4() called on its own
CallFixRoom314ToHub4 ==
    /\ Quiet
    /\ runsLeft > 0
    /\ runsLeft' = runsLeft - 1
    /\ LET r == Room314ToHub4(campusGraph, campusNodes)
       IN  /\ campusGraph' = r.graph
           /\ campusNodes' = r.nodes
           /\ fixes' = Append(fixes, FixRecord("Room 314 to Hub 4 Connection",
                                               r.outcome = "done"))
           /\ appliedFixes' = IF r.outcome = "done"
                              THEN Append(appliedFixes, "room314toHub4")
                              ELSE appliedFixes
    /\ phase' = "idle"
    /\ UNCHANGED <<validationResults, report, debug, lastRun, plannerVars>>

\* the button "Run Diagnosis": runDiagnosis()
RunDiagnosis ==
    /\ Quiet
    /\ runsLeft > 0
    /\ runsLeft' = runsLeft - 1
    /\ debug' = verifyNodesExist(campusNodes)
    /\ campusGraph' = Diagnosis(Store).graph
    /\ campusNodes' = Diagnosis(Store).nodes
    /\ phase' = "idle"
    /\ UNCHANGED <<appliedFixes, fixes, validationResults, report, lastRun,
                   plannerVars>>

\* addIntermediateHub() called on its own; it throws before any write when
\* no diagnosis has found the two rooms
AddIntermediateHub ==
    /\ Quiet
    /\ runsLeft > 0
    /\ runsLeft' = runsLeft - 1
    /\ LET after == IF RoomsFound(debug) THEN addIntermediateHub(Store, debug)
                    ELSE Store
       IN  /\ campusGraph' = after.graph
           /\ campusNodes' = after.nodes
    /\ phase' = "idle"
    /\ UNCHANGED <<appliedFixes, fixes, validationResults, report, debug,
                   lastRun, plannerVars>>

\* the button "Quick Fix": addDirectConnection(), its exception caught
QuickFix ==
    /\ Quiet
    /\ runsLeft > 0
    /\ runsLeft' = runsLeft - 1
    /\ campusGraph' = IF RoomsFound(debug)
                      THEN addDirectConnection(Store, debug).graph
                      ELSE campusGraph
    /\ phase' = "idle"
    /\ UNCHANGED <<campusNodes, appliedFixes, fixes, validationResults, report,
                   debug, lastRun, plannerVars>>

NextMaintenance ==
    \/ StartApplyAllFixes
    \/ CallFixRoom314ToHub4
    \/ RunDiagnosis
    \/ AddIntermediateHub
    \/ QuickFix
    \/ NextRepair

\* the same fragment at half the size: a 60 x 80 rectangle, diagonals 100
Compact(nodes) ==
    [i \in 1..Len(nodes) |-> [nodes[i] EXCEPT !.x = @ \div 2, !.y = @ \div 2]]

\* the floor data when the page has loaded: well-formed, every edge in both
\* directions or absent; the fragment at full or at half size
InitMaintenance ==
    /\ \E centre \in {"intersection", "invisible", "none"}, emptyKeys \in BOOLEAN,
          compact \in BOOLEAN :
       \E c1 \in CentreOptions(centre, FALSE), c3 \in CentreOptions(centre, FALSE),
          stair \in {"none", "both"}, diagonal \in {"none", "heavy"} :
          LET opts == [p \in RepairPairs |->
                         IF p = <<1, 2>> THEN c1
                         ELSE IF p = <<2, 3>> THEN c3
                         ELSE IF p = <<1, 4>> THEN stair
                         ELSE IF p = <<1, 3>> THEN diagonal
                         ELSE "none"]
              recs == IF compact THEN Compact(RepairNodes(centre))
                      ELSE RepairNodes(centre)
          IN  /\ campusNodes = IF centre = "none"
                               THEN SelectSeq(recs, LAMBDA n : n.type # "invisible")
                               ELSE recs
              /\ campusGraph = BuildGraph(IdSequence(campusNodes),
                                   WeightsOf(IdSequence(recs), recs, opts),
                                   emptyKeys)
    /\ PlannerIdle
    /\ callsLeft = 0
    /\ phase = "idle"
    /\ appliedFixes = <<>>
    /\ fixes = <<>>
    /\ validationResults = <<>>
    /\ report = NoReport
    /\ debug = NoDebug
    /\ lastRun = NoRun
    /\ runsLeft = MaxRuns

\* up to MaxRuns repair operations on each loaded graph
SpecMaintenance == InitMaintenance /\ [][NextMaintenance]_vars

-----------------------------------------------------------------------------
(* Reference notions used to state the properties *)

\* ids that occur in the adjacency map, as key or as neighbour
GraphIds(graph) == DOMAIN graph \cup UNION {NeighborIds(graph, u) : u \in DOMAIN graph}

\* every node record has a position and every id of the map has a record
AllPositioned(graph, nodes) ==
    /\ \A i \in 1..Len(nodes) : HasPosition(nodes[i])
    /\ GraphIds(graph) \subseteq NodeIds(nodes)

\* every weight is at least the straight-line distance of its endpoints
Admissible(graph, nodes) ==
    \A u \in DOMAIN graph : \A v \in NeighborIds(graph, u) :
        Ge(Weight(graph, u, v), NodeDistance(FindNode(nodes, u), FindNode(nodes, v)))

Min2(a, b) == IF a < b THEN a ELSE b

RECURSIVE MinOver(_)
MinOver(S) ==
    IF S = {} THEN Infinity
    ELSE LET x == CHOOSE y \in S : TRUE IN Min2(x, MinOver(S \ {x}))

\* least total weight of a route from s to t with at most k entries,
\* Infinity when there is none (exhaustive search)
RECURSIVE MinCostWithin(_, _, _, _)
MinCostWithin(graph, s, t, k) ==
    IF s = t THEN 0
    ELSE IF k = 0 THEN Infinity
    ELSE MinOver({Plus(MinCostWithin(graph, s, u, k - 1), Weight(graph, u, t)) :
                    u \in {x \in DOMAIN graph : t \in NeighborIds(graph, x)}})

MinCost(graph, s, t) == MinCostWithin(graph, s, t, Cardinality(GraphIds(graph)))

RouteExists(graph, s, t) == MinCost(graph, s, t) < Infinity

RECURSIVE SumWeights(_, _, _)
SumWeights(graph, path, i) ==
    IF i >= Len(path) THEN 0
    ELSE Plus(Weight(graph, path[i], path[i + 1]), SumWeights(graph, path, i + 1))

\* summed adjacency-map weights along a path
PathCost(graph, path) == SumWeights(graph, path, 1)

Returned == pc = "returned"

-----------------------------------------------------------------------------
(* Properties of the path planner *)

RouteQuery ==
    /\ Returned
    /\ start # end
    /\ start \in NodeIds(campusNodes) /\ end \in NodeIds(campusNodes)

OptimalityPremises ==
    /\ RouteQuery
    /\ AllPositioned(campusGraph, campusNodes)
    /\ Admissible(campusGraph, campusNodes)
    /\ RouteExists(campusGraph, start, end)

ReturnsOptimalPath ==
    /\ result.kind = "path"
    /\ PathCost(campusGraph, result.path) = MinCost(campusGraph, start, end)

C2_SameNodePath ==
    (/\ Returned
     /\ start = end
     /\ start \in NodeIds(campusNodes)
     /\ HasKey(campusGraph, start))
    => result = PathResult(<<start>>)

NoRouteQuery ==
    /\ RouteQuery
    /\ HasKey(campusGraph, start) /\ HasKey(campusGraph, end)
    /\ ~RouteExists(campusGraph, start, end)

\* C4 as stated: a query between distinct existing nodes with no route ends
\* with the open set exhausted and returns null.
C4_ExhaustedOpenSet ==
    NoRouteQuery => (result = NullResult /\ openSet = <<>>)

\* C4, amended: such a query returns null (never a list), and ends with no
\* selectable node left open: the open set is empty whenever every id of the
\* map has a positioned node record, and otherwise holds only nodes whose
\* fScore is not a finite number.
C4_NoRouteIsNull ==
    NoRouteQuery =>
        /\ result = NullResult
        /\ \A i \in 1..Len(openSet) : ~Lt(fScore[openSet[i]], Infinity)
        /\ AllPositioned(campusGraph, campusNodes) => openSet = <<>>

\* a no-route query that expanded at least two nodes before giving up
C4_Witness ==
    /\ NoRouteQuery
    /\ AllPositioned(campusGraph, campusNodes)
    /\ iterations >= 2
    /\ result = NullResult

MissingEndpoint ==
    \/ start \notin NodeIds(campusNodes)
    \/ end \notin NodeIds(campusNodes)
    \/ ~HasKey(campusGraph, start)
    \/ ~HasKey(campusGraph, end)

\* C5: when start or end is absent from the node list or has no entry in
\* the adjacency map, the call returns null without running the search (no
\* score is initialised, no loop iteration runs).
C5_MissingEndpointIsNull ==
    (Returned /\ MissingEndpoint) =>
        /\ result = NullResult
        /\ iterations = 0
        /\ openSet = <<>> /\ closedSet = {}

\* rejected although both ids occur in the adjacency map and a route exists:
\* the end node has a record but no entry of its own
C5_Witness ==
    /\ Returned
    /\ start \in NodeIds(campusNodes) /\ end \in NodeIds(campusNodes)
    /\ HasKey(campusGraph, start) /\ ~HasKey(campusGraph, end)
    /\ RouteExists(campusGraph, start, end)
    /\ result = NullResult

NoDuplicates(seq) == \A i, j \in 1..Len(seq) : i # j => seq[i] # seq[j]

\* C6: every returned path starts at start, ends at end, repeats no node and
\* steps only along entries of the adjacency map.
C6_ValidRoute ==
    (Returned /\ result.kind = "path") =>
        /\ result.path[1] = start
        /\ result.path[Len(result.path)] = end
        /\ NoDuplicates(result.path)
        /\ \A i \in 1..(Len(result.path) - 1) :
              Weight(campusGraph, result.path[i], result.path[i + 1]) # Undefined

\* a returned path through all four nodes
C6_Witness ==
    /\ Returned
    /\ result.kind = "path"
    /\ Len(result.path) = 4

-----------------------------------------------------------------------------
(* Properties of sequences of queries *)

NodeNotFoundCall(c) ==
    /\ c.result.kind # "none"
    /\ (c.start \notin NodeIds(campusNodes) \/ c.end \notin NodeIds(campusNodes))

\* C3: the value returned for an id absent from the node set differs from
\* the value returned for two existing nodes with no route between them.
C3_DistinctSignals ==
    (NodeNotFoundCall(lastCall) /\ NoRouteQuery) => result # lastCall.result

SameQueryAgain ==
    /\ Returned
    /\ lastCall.result.kind # "none"
    /\ lastCall.start = start /\ lastCall.end = end

\* C7: a call repeated with the same arguments on the same graph returns
\* the same node sequence (or null both times).
C7_Deterministic == SameQueryAgain => result = lastCall.result

\* the same query answered twice where two routes tie: both corners of the
\* rectangle give a route of the returned cost
C7_Witness ==
    /\ SameQueryAgain
    /\ result.kind = "path"
    /\ Len(result.path) = 3
    /\ \E other \in NodeIds(campusNodes) \ {start, end, result.path[2]} :
          /\ IsNum(Weight(campusGraph, start, other))
          /\ IsNum(Weight(campusGraph, other, end))
          /\ Plus(Weight(campusGraph, start, other), Weight(campusGraph, other, end))
               = PathCost(campusGraph, result.path)

\* C8: a call changes neither the adjacency map nor the node list, and what
\* it returns is what the same call returns when run alone on the store,
\* whatever calls ran before it.
C8_ReadOnlyStateless ==
    [][/\ campusGraph' = campusGraph
       /\ campusNodes' = campusNodes
       /\ pc' = "returned" =>
            result' = astarPath(campusGraph', campusNodes', start', end')]_vars

\* a route returned right after a different query that also returned a route
C8_Witness ==
    /\ Returned
    /\ result.kind = "path"
    /\ lastCall.result.kind = "path"
    /\ <<lastCall.start, lastCall.end>> # <<start, end>>
    /\ iterations >= 2

-----------------------------------------------------------------------------
(* Properties of the repair pass *)

RepairCompleted == phase = "done"

\* C9: after applyAllFixes completes, every entry a -> b of the adjacency
\* map has an entry b -> a of the same weight.
C9_SymmetricAfterRepair ==
    RepairCompleted =>
        \A a \in DOMAIN campusGraph : \A b \in NeighborIds(campusGraph, a) :
            Weight(campusGraph, b, a) = Weight(campusGraph, a, b)

\* C10: after applyAllFixes completes, no searchable node is isolated.
C10_NoIsolatedSearchable ==
    RepairCompleted =>
        \A i \in 1..Len(campusNodes) :
            campusNodes[i].searchable => ~IsIsolated(campusGraph, campusNodes[i].id)

\* searchable nodes that navigation serves: data markers are exempt
Navigable(n) == n.searchable /\ n.type # "data_node"

\* C11: after applyAllFixes completes, astarPath finds a route from every
\* navigable searchable node to every other one.
C11_AllSearchableReachable ==
    RepairCompleted =>
        \A i, j \in 1..Len(campusNodes) :
            (i # j /\ Navigable(campusNodes[i]) /\ Navigable(campusNodes[j])) =>
                astarPath(campusGraph, campusNodes,
                          campusNodes[i].id, campusNodes[j].id).kind = "path"

-----------------------------------------------------------------------------
(* Properties of the repair operations invoked in sequence *)

\* applyAllFixes has completed immediately after an earlier completed run
SecondRunCompleted == phase = "done" /\ lastRun.completed

\* C12: a second run of applyAllFixes leaves the adjacency map and the node
\* list exactly as the first run left them.
C12_SecondRunChangesNothing ==
    SecondRunCompleted =>
        campusGraph = lastRun.graph /\ campusNodes = lastRun.nodes

-----------------------------------------------------------------------------
(* Isolated-node reconnection as the specification states it *)

\* positions in the node list of the nodes other than n that have an
\* adjacency entry and lie at a known distance from n
ConnectedCandidates(graph, nodes, n) ==
    {i \in 1..Len(nodes) :
        /\ nodes[i].id # n.id
        /\ ~IsIsolated(graph, nodes[i].id)
        /\ IsNum(NodeDistance(n, nodes[i]))}

\* the candidate at minimum distance from n, the first in the list on ties
NearestCandidate(graph, nodes, n) ==
    LET cand == ConnectedCandidates(graph, nodes, n)
    IN  nodes[CHOOSE i \in cand :
                \A j \in cand :
                    \/ NodeDistance(n, nodes[i]) < NodeDistance(n, nodes[j])
                    \/ /\ NodeDistance(n, nodes[i]) = NodeDistance(n, nodes[j])
                       /\ i <= j]

\* every isolated node from position i on, in list order, joined to its
\* nearest candidate by entries in both directions weighing the distance
RECURSIVE ReconnectedFrom(_, _, _)
ReconnectedFrom(graph, nodes, i) ==
    IF i > Len(nodes) THEN graph
    ELSE LET n == nodes[i]
         IN  IF /\ IsIsolated(graph, n.id)
                /\ n.type # "data_node"
                /\ ConnectedCandidates(graph, nodes, n) # {}
             THEN LET m == NearestCandidate(graph, nodes, n)
                  IN  CallByValue(
                          LAMBDA g2 : ReconnectedFrom(g2, nodes, i + 1),
                          Connect(graph, n.id, m.id, NodeDistance(n, m)))
             ELSE ReconnectedFrom(graph, nodes, i + 1)

\* the same for the nodes of type 'class' only
RECURSIVE ReconnectedClassFrom(_, _, _)
ReconnectedClassFrom(graph, nodes, i) ==
    IF i > Len(nodes) THEN graph
    ELSE LET n == nodes[i]
         IN  IF /\ IsIsolated(graph, n.id)
                /\ n.type = "class"
                /\ ConnectedCandidates(graph, nodes, n) # {}
             THEN LET m == NearestCandidate(graph, nodes, n)
                  IN  CallByValue(
                          LAMBDA g2 : ReconnectedClassFrom(g2, nodes, i + 1),
                          Connect(graph, n.id, m.id, NodeDistance(n, m)))
             ELSE ReconnectedClassFrom(graph, nodes, i + 1)

RoomConnectionsStep == phase = "fixRoomConnections" /\ phase' = "fixHubConnections"

\* C13: fixRoomConnections joins each isolated node, in node-list order, to
\* the nearest node that is not isolated at that moment (the first on ties),
\* by entries in both directions whose weight is the distance.
C13_NearestReconnection ==
    [][RoomConnectionsStep =>
          campusGraph' = ReconnectedFrom(campusGraph, campusNodes, 1)]_vars

\* the reconnection fixRoomConnections does perform: the same rule applied to
\* the isolated nodes of type 'class'
ClassRoomsNearestReconnection ==
    [][RoomConnectionsStep =>
          campusGraph' = ReconnectedClassFrom(campusGraph, campusNodes, 1)]_vars

-----------------------------------------------------------------------------
(* Properties of the waypoint insertion *)

Route(graph, nodes, a, b) == astarPath(graph, nodes, a, b).kind = "path"

\* both target rooms are in the node list
TargetRoomsFound == Room310(campusNodes).id # NoId /\ Room305(campusNodes).id # NoId

\* the planner finds no route between the target rooms, in either direction
MutuallyUnreachable ==
    /\ ~Route(campusGraph, campusNodes, Room310(campusNodes).id, Room305(campusNodes).id)
    /\ ~Route(campusGraph, campusNodes, Room305(campusNodes).id, Room310(campusNodes).id)

\* the node list has no intersection and no corridor node
NoWaypointCandidate ==
    \A i \in 1..Len(campusNodes) :
        campusNodes[i].type \notin {"intersection", "invisible"}

\* fixRoom310To305 runs
WaypointStep == phase = "fixRoom310To305" /\ phase' # phase

\* a corridor node has been added at the midpoint of the target rooms and is
\* joined to both rooms in both directions
MidpointNodeAdded ==
    LET room310 == Room310(campusNodes)
        room305 == Room305(campusNodes)
    IN  \E i \in (Len(campusNodes) + 1)..Len(campusNodes') :
            LET m == campusNodes'[i]
            IN  /\ m.type = "invisible"
                /\ m.x = Half(Plus(room310.x, room305.x))
                /\ m.y = Half(Plus(room310.y, room305.y))
                /\ \A r \in {room310.id, room305.id} :
                       /\ IsNum(Weight(campusGraph', r, m.id))
                       /\ IsNum(Weight(campusGraph', m.id, r))

\* C14: when the target rooms are mutually unreachable and no intersection
\* or corridor node exists, fixRoom310To305 adds a corridor node at the
\* midpoint, joins both rooms to it and a route between the rooms exists.
C14_MidpointSynthesized ==
    [][(WaypointStep /\ TargetRoomsFound /\ MutuallyUnreachable
            /\ NoWaypointCandidate) =>
          /\ MidpointNodeAdded
          /\ Route(campusGraph', campusNodes',
                   Room310(campusNodes).id, Room305(campusNodes).id)]_vars

\* C15: fixRoom310To305 changes neither the adjacency map nor the node list
\* when the planner already returns a route from Room 310 to Room 305.
C15_NoChangeWhenRouteExists ==
    [][(WaypointStep /\ TargetRoomsFound
            /\ Route(campusGraph, campusNodes,
                     Room310(campusNodes).id, Room305(campusNodes).id)) =>
          (campusGraph' = campusGraph /\ campusNodes' = campusNodes)]_vars

\* fixRoom310To305 has run on a map where the direct edge Room 310 -> Room 305
\* gave a route, and a waypoint was at hand that it did not link to Room 310
C15_Witness ==
    /\ phase = "fixRoom314ToHub4"
    /\ TargetRoomsFound
    /\ Len(fixes) = 3 /\ fixes[3].applied
    /\ IsNum(Weight(campusGraph, "class_310", "class_305"))
    /\ IsNum(Weight(campusGraph, "class_305", "class_310"))
    /\ LET waypoint == findBestWaypointBetweenRooms(campusNodes,
                           Room310(campusNodes), Room305(campusNodes))
       IN  /\ waypoint.id # NoId
           /\ ~IsNum(Weight(campusGraph, "class_310", waypoint.id))

-----------------------------------------------------------------------------
(* Properties of the repair pass on a floor with a malformed node *)

Malformed(n) == ~HasPosition(n)

\* ids of the node records that lack position data
MalformedIds(nodes) == {nodes[i].id : i \in {j \in 1..Len(nodes) : Malformed(nodes[j])}}

\* the entries a -> b the step has written: new, or of a changed weight
WrittenEntries ==
    {<<a, b>> \in AllIds \X AllIds :
        /\ Weight(campusGraph', a, b) # Undefined
        /\ Weight(campusGraph', a, b) # Weight(campusGraph, a, b)}

\* C16: on a floor with a node that lacks position data no step of
\* applyAllFixes throws, writes an entry incident to that node or an entry
\* whose weight is not a number, or creates a node without numeric position.
C16_MalformedNodeSkipped ==
    [][(MalformedIds(campusNodes) # {}) =>
          /\ phase' # "threw"
          /\ \A e \in WrittenEntries :
                /\ IsNum(Weight(campusGraph', e[1], e[2]))
                /\ e[1] \notin MalformedIds(campusNodes)
                /\ e[2] \notin MalformedIds(campusNodes)
          /\ \A i \in (Len(campusNodes) + 1)..Len(campusNodes') :
                HasPosition(campusNodes'[i])]_vars

-----------------------------------------------------------------------------
(* Properties of the path planner on a floor with a malformed node *)

\* the adjacency map without the ids in bad, as keys and as neighbours
Avoiding(graph, bad) ==
    [u \in DOMAIN graph \ bad |-> SelectSeq(graph[u], LAMBDA en : en.id \notin bad)]

\* a query between positioned nodes on a floor with a malformed node, where
\* a route that avoids the malformed node exists
RouteAvoidingMalformed ==
    /\ Returned
    /\ MalformedIds(campusNodes) # {}
    /\ start \in NodeIds(campusNodes) /\ end \in NodeIds(campusNodes)
    /\ HasPosition(FindNode(campusNodes, start))
    /\ HasPosition(FindNode(campusNodes, end))
    /\ RouteExists(Avoiding(campusGraph, MalformedIds(campusNodes)), start, end)

\* the returned path keeps clear of the malformed nodes and of NaN and
\* undefined scores
PathClearOfMalformed ==
    (Returned /\ result.kind = "path") =>
        \A i \in 1..Len(result.path) :
            /\ result.path[i] \notin MalformedIds(campusNodes)
            /\ IsNum(gScore[result.path[i]])
            /\ IsNum(fScore[result.path[i]])

\* C17: a node without position data never occurs in a returned path, no
\* returned path rests on a NaN or undefined score, and a query between
\* positioned nodes joined by a route avoiding the malformed node returns a
\* route.
C17_MalformedUnusable ==
    /\ PathClearOfMalformed
    /\ RouteAvoidingMalformed => result.kind = "path"

\* what the planner does guarantee: the same, for distinct start and end
\* that both have an entry of their own in the adjacency map
MalformedUnusableBetweenKeys ==
    /\ PathClearOfMalformed
    /\ (RouteAvoidingMalformed /\ start # end
            /\ HasKey(campusGraph, start) /\ HasKey(campusGraph, end)) =>
          result.kind = "path"

-----------------------------------------------------------------------------
(* The reported distance of a path *)

\* PathfindingTester.calculatePathDistance(path) from index i on: the
\* straight-line distances of the consecutive pairs whose nodes are both found
RECURSIVE PathDistanceFrom(_, _, _)
PathDistanceFrom(nodes, path, i) ==
    IF i >= Len(path) THEN 0
    ELSE LET current == getNodeCoordinates(nodes, path[i])
             next == getNodeCoordinates(nodes, path[i + 1])
             rest == PathDistanceFrom(nodes, path, i + 1)
         IN  IF current.found /\ next.found
             THEN Plus(heuristicDistance(current, next), rest)
             ELSE rest

calculatePathDistance(nodes, path) == PathDistanceFrom(nodes, path, 1)

\* C18: for every path astarPath returns, calculatePathDistance(path) equals
\* the sum of the adjacency-map weights of the consecutive pairs of the path.
C18_DistanceIsSumOfWeights ==
    (Returned /\ result.kind = "path") =>
        calculatePathDistance(campusNodes, result.path)
            = PathCost(campusGraph, result.path)

-----------------------------------------------------------------------------
(* Invariants of the floor data under the repair tools *)

\* C19: after any sequence of repair operations (applyAllFixes,
\* fixRoom314ToHub4, runDiagnosis, addIntermediateHub), each repeated any
\* number of times, no two records of campusNodes have the same id.
C19_NodeIdsUnique ==
    \A i, j \in 1..Len(campusNodes) :
        campusNodes[i].id = campusNodes[j].id => i = j

\* every stored weight is a number and is not negative
WeightsNonNegative(graph) ==
    \A u \in DOMAIN graph : \A k \in 1..Len(graph[u]) :
        IsNum(graph[u][k].w) /\ graph[u][k].w >= 0

\* every node has a position, every id of the map has a record and every
\* weight is >= 0
SoundFloor(graph, nodes) ==
    /\ AllPositioned(graph, nodes)
    /\ WeightsNonNegative(graph)

\* C20: from a floor where every node has a position, every id of the map
\* has a record and every weight is >= 0, after any sequence of repair
\* operations of CompletePathFix and Debug310To305 every id that appears in
\* campusGraph, as key or as neighbour, has a record in campusNodes and every
\* stored weight is >= 0.
C20_NoDanglingNoNegative ==
    /\ GraphIds(campusGraph) \subseteq NodeIds(campusNodes)
    /\ WeightsNonNegative(campusGraph)

\* both tools have created their hub and wired it into the map
C20_Witness ==
    /\ phase = "done"
    /\ {"main_hub_4", "hub_310_305"} \subseteq GraphIds(campusGraph)
    /\ {"main_hub_4", "hub_310_305"} \subseteq NodeIds(campusNodes)

\* the floor the tools start from is sound, and stays sound step by step
SoundFloorKept == [][SoundFloor(campusGraph, campusNodes)
                        => SoundFloor(campusGraph', campusNodes')]_vars

-----------------------------------------------------------------------------
(* Properties of the repair pass on a floor with a data marker *)

\* no adjacency entry is incident to the node: none of its own, none to it
Unconnected(graph, id) ==
    /\ IsIsolated(graph, id)
    /\ \A u \in DOMAIN graph : id \notin NeighborIds(graph, u)

\* C21: for every node of type data_node that is isolated before
\* applyAllFixes, no operation of the pass adds an adjacency entry incident
\* to it: a data marker that no entry touches is touched by none after any
\* step of the pass.
C21_DataMarkersLeftAlone ==
    [][\A i \in 1..Len(campusNodes) :
          (campusNodes[i].type = "data_node"
              /\ Unconnected(campusGraph, campusNodes[i].id)) =>
                 Unconnected(campusGraph', campusNodes[i].id)]_vars

-----------------------------------------------------------------------------
(* Properties of the main loop of the planner *)

\* the node the next loop iteration selects
Selected == SelectCurrent(openSet, fScore)

\* C22: the search ends at the first loop iteration in which the end node is
\* the open node selected with minimal f; a route is returned only after
\* such an iteration, never when end is merely discovered as a neighbour;
\* and the end node is never expanded (never moved to the closed set).
C22_StopsWhenEndPopped ==
    [][/\ (pc = "exploring" /\ Selected = end) =>
              /\ pc' = "reconstruct"
              /\ UNCHANGED <<openSet, closedSet, gScore, fScore, previous>>
       /\ (pc' = "returned" /\ result'.kind = "path") =>
              (pc = "reconstruct" /\ Selected = end)
       /\ end' \notin closedSet']_vars

\* a route of several hops was returned although end was the neighbour of
\* start, discovered in the first iteration
C22_Witness ==
    /\ Returned
    /\ result.kind = "path"
    /\ Len(result.path) >= 3
    /\ IsNum(Weight(campusGraph, start, end))
    /\ iterations >= 2

\* the graphs on which the progress of a call is followed: with cycles,
\* one-directional and under-weighted entries, every node list of the planner
InitTermination ==
    /\ \E side \in {"both", "fwd"}, left \in {"none", "both"},
          right \in {"none", "both"}, bottom \in {"none", "both"},
          diagonal \in {"none", "low"}, emptyKeys \in BOOLEAN,
          nodes \in PlannerNodeLists :
          LET opts == [p \in PlannerPairs |->
                         IF p = <<1, 2>> THEN side
                         ELSE IF p = <<1, 3>> THEN left
                         ELSE IF p = <<2, 4>> THEN right
                         ELSE IF p = <<3, 4>> THEN bottom
                         ELSE IF p = <<1, 4>> THEN diagonal
                         ELSE "none"]
          IN  /\ campusNodes = nodes
              /\ campusGraph = BuildGraph(PlannerOrder,
                                          WeightsOf(PlannerOrder, PlannerNodes, opts),
                                          emptyKeys)
    /\ PlannerIdle
    /\ callsLeft = 1
    /\ RepairIdle
    /\ ToolsIdle

\* weak fairness of the loop, WF_vars(Iterate), written out: a step of
\* Iterate is possible exactly when the call is in the loop (it leaves the
\* loop or counts one more iteration)
LoopFairness == []<>(pc # "exploring") \/ []<><<Iterate>>_vars

\* the planner with its loop and its return always making progress: a call
\* that entered the loop keeps running until it returns
SpecPlannerFair ==
    /\ InitTermination
    /\ [][NextPlanner]_vars
    /\ LoopFairness /\ WF_vars(Return)

\* a loop iteration that does not leave the loop moves exactly one node from
\* the open set to the closed set
MovesOneNode ==
    (pc = "exploring" /\ pc' = "exploring") =>
        \E n \in AllIds :
            /\ InSeq(n, openSet) /\ n \notin closedSet
            /\ closedSet' = closedSet \cup {n}
            /\ ~InSeq(n, openSet')

\* no closed node is in the open set
ClosedStaysClosed == \A n \in closedSet : ~InSeq(n, openSet)

\* C23: every call of astarPath terminates, with a path or with null: each
\* loop iteration either leaves the loop or moves exactly one node from the
\* open set to the closed set, a closed node is never put back in the open
\* set, and path reconstruction follows the predecessor links from end
\* without cycling and without reaching an undefined predecessor.
C23_Terminates ==
    /\ (pc = "exploring") ~> Returned
    /\ [][MovesOneNode]_vars
    /\ [](ClosedStaysClosed)
    /\ [](Returned => result.kind \in {"path", "null"})

\* a call has returned after a loop of several iterations
C23_Witness ==
    /\ Returned
    /\ iterations >= 3
    /\ result.kind \in {"path", "null"}

-----------------------------------------------------------------------------
(* Properties of the single repair operations *)

\* every entry a -> b has an entry b -> a of the same weight
Symmetric(graph) ==
    \A a \in DOMAIN graph : \A b \in NeighborIds(graph, a) :
        Weight(graph, b, a) = Weight(graph, a, b)

\* C24: every repair operation (fixRoomConnections, fixHubConnections,
\* fixRoom310To305, fixRoom314ToHub4, addDirectConnection,
\* addWaypointConnection, addIntermediateHub) preserves bidirectional
\* consistency: a symmetric adjacency map is symmetric after the operation,
\* in any sequence and repetition of the operations.
C24_SymmetryPreserved ==
    [][Symmetric(campusGraph) => Symmetric(campusGraph')]_vars

-----------------------------------------------------------------------------
(* Properties of the diagnosis of the route Room 310 -> Room 305 *)

\* the planner finds a route between the two rooms the diagnosis locates
DiagnosedRouteExists(graph, nodes) ==
    LET rooms == verifyNodesExist(nodes)
    IN  /\ RoomsFound(rooms)
        /\ PathFound(windowAstarPath(graph, nodes, rooms.room310.id, rooms.room305.id))

\* C25: runDiagnosis leaves campusGraph and campusNodes unchanged when the
\* planner already finds a route between Room 310 and Room 305 before any
\* fix is applied.
C25_DiagnosisKeepsWorkingRoute ==
    [][(RunDiagnosis /\ DiagnosedRouteExists(campusGraph, campusNodes)) =>
           UNCHANGED storeVars]_vars

\* the store after the first k suggestions were applied, in order
RECURSIVE AfterFixes(_, _, _, _)
AfterFixes(store, rooms, suggestions, k) ==
    IF k = 0 THEN store
    ELSE Implementation(AfterFixes(store, rooms, suggestions, k - 1),
                        rooms, suggestions[k])

\* the planner finds a route between the two rooms in the store
RoomsJoined(store, rooms) ==
    PathFound(windowAstarPath(store.graph, store.nodes,
                              rooms.room310.id, rooms.room305.id))

\* the suggestions come in the order direct connection, waypoint
\* connection, intermediate hub, enhance-nearby
Priority(kind) ==
    CASE kind = "direct_connection"   -> 1
      [] kind = "waypoint_connection" -> 2
      [] kind = "intermediate_hub"    -> 3
      [] OTHER                        -> 4

InPriorityOrder(suggestions) ==
    \A i, j \in 1..Len(suggestions) :
        i < j => Priority(suggestions[i]) < Priority(suggestions[j])

\* both rooms are located, as two nodes, each with a position
TwoPositionedRooms(rooms) ==
    /\ RoomsFound(rooms)
    /\ rooms.room310.id # rooms.room305.id
    /\ HasPosition(rooms.room310) /\ HasPosition(rooms.room305)

\* C26: applyAndTestFixes tries the suggested fixes in priority order (direct
\* connection, waypoint connection, intermediate hub, enhance-nearby),
\* re-tests the route after each and applies no further fix once a re-test
\* finds a route; when both rooms exist as distinct nodes with positions,
\* runDiagnosis ends with astarPath returning a route between them.
C26_FixesUntilRouteFound ==
    [][LET rooms == verifyNodesExist(campusNodes)
           suggestions == suggestFixes(campusNodes, rooms)
       IN  (RunDiagnosis /\ TwoPositionedRooms(rooms)) =>
              /\ InPriorityOrder(suggestions)
              /\ \E k \in 1..Len(suggestions) :
                    /\ [graph |-> campusGraph', nodes |-> campusNodes']
                          = AfterFixes(Store, rooms, suggestions, k)
                    /\ RoomsJoined(AfterFixes(Store, rooms, suggestions, k), rooms)
                    /\ \A j \in 1..(k - 1) :
                          ~RoomsJoined(AfterFixes(Store, rooms, suggestions, j), rooms)
              /\ RoomsJoined([graph |-> campusGraph', nodes |-> campusNodes'], rooms)]_vars

\* a diagnosis has run on a floor where the direct connection came first:
\* the two rooms are joined directly and no hub was created
C26_Witness ==
    /\ TwoPositionedRooms(debug)
    /\ runsLeft = MaxRuns - 1
    /\ Lt(calculateDistance(debug.room310, debug.room305), DirectLimit)
    /\ IsNum(Weight(campusGraph, debug.room310.id, debug.room305.id))
    /\ "hub_310_305" \notin NodeIds(campusNodes)
    /\ RoomsJoined(Store, debug)

-----------------------------------------------------------------------------
(* Properties of the weights the repair operations write *)

\* straight-line distance between the current positions of two ids
DistanceNow(nodes, a, b) == NodeDistance(FindNode(nodes, a), FindNode(nodes, b))

\* every entry the step has written has the distance of its endpoints
WritesDistances ==
    \A e \in WrittenEntries :
        /\ IsNum(Weight(campusGraph', e[1], e[2]))
        /\ Weight(campusGraph', e[1], e[2]) = DistanceNow(campusNodes', e[1], e[2])

\* C27: every adjacency entry written by a repair operation has weight equal
\* to the Euclidean distance between the current positions of its two
\* endpoints; hence a graph whose weights are all >= the straight-line
\* distance of their endpoints keeps that property after any sequence of
\* repair operations.
C27_WeightsAreDistances ==
    [][/\ WritesDistances
       /\ Admissible(campusGraph, campusNodes) =>
              Admissible(campusGraph', campusNodes')]_vars

-----------------------------------------------------------------------------
(* Properties of a query and its reverse *)

\* the call that has returned asked for the reverse of the call before it,
\* on a symmetric map whose weights are at least the straight-line distances
ReverseQueryReturned ==
    /\ Returned
    /\ start # end
    /\ lastCall.start = end /\ lastCall.end = start
    /\ Symmetric(campusGraph)
    /\ Admissible(campusGraph, campusNodes)

\* C28: on a bidirectionally consistent map with equal weights in both
\* directions and weights >= the straight-line distance, for distinct nodes
\* a and b astarPath(a, b) is non-null iff astarPath(b, a) is non-null, and
\* when both exist the two paths have the same total edge weight.
C28_ReverseQuerySameCost ==
    ReverseQueryReturned =>
        /\ (result.kind = "path") <=> (lastCall.result.kind = "path")
        /\ (result.kind = "path") =>
              PathCost(campusGraph, result.path)
                  = PathCost(campusGraph, lastCall.result.path)

\* a query and its reverse both returned a route of several hops
C28_Witness ==
    /\ ReverseQueryReturned
    /\ result.kind = "path" /\ lastCall.result.kind = "path"
    /\ Len(result.path) >= 3
    /\ iterations >= 2

-----------------------------------------------------------------------------
(* Properties of the verification step and of the report *)

\* validateGraphIntegrity has run
Validated == phase \in {"generateFixReport", "done"} /\ Len(validationResults) > 0

\* C29: whenever fixRoom310To305 located the two rooms (by id or by label)
\* and a route between the two located nodes exists after the fix,
\* validateGraphIntegrity does not record the issue 'Room 310 to 305 path
\* still not working'.
C29_VerifiesRepairedPair ==
    (/\ Validated
     /\ InSeq("room310to305", appliedFixes)
     /\ TargetRoomsFound
     /\ Route(campusGraph, campusNodes,
              Room310(campusNodes).id, Room305(campusNodes).id)) =>
        "room 310 to 305 path" \notin validationResults[Len(validationResults)].issues

\* the report of applyAllFixes says that the validation passed
ReportPassed == phase = "done" /\ report.generated /\ report.validationPassed

\* C30: if the report returned by applyAllFixes has validationPassed = true,
\* then in the final graph every adjacency entry a -> b has a reverse entry
\* b -> a, every record of campusNodes has at least one adjacency entry, and
\* every key of campusGraph has a node record.
C30_ReportSound ==
    ReportPassed =>
        /\ \A a \in DOMAIN campusGraph : \A b \in NeighborIds(campusGraph, a) :
               HasKey(campusGraph, b) /\ a \in NeighborIds(campusGraph, b)
        /\ \A i \in 1..Len(campusNodes) :
               /\ HasKey(campusGraph, campusNodes[i].id)
               /\ NeighborIds(campusGraph, campusNodes[i].id) # {}
        /\ \A k \in DOMAIN campusGraph : k \in NodeIds(campusNodes)

\* a passing report on a floor where fix 3 ran and check 4 found the route
C30_Witness ==
    /\ ReportPassed
    /\ InSeq("room310to305", appliedFixes)
    /\ HasKey(campusGraph, "main_hub_4")

\* a passing report on a floor without the two rooms: fix 3 did not run
C30_WitnessOtherFloor ==
    /\ ReportPassed
    /\ ~InSeq("room310to305", appliedFixes)

====
